---- MODULE Spec2Model ----
(***************************************************************************)
(* Model of the hook execution engine of pre-commit:                       *)
(*   pre_commit/commands/run.py   (run, _run_hooks, _run_single_hook,      *)
(*                                 Classifier, _get_skips, _all_filenames) *)
(*   pre_commit/git_adapter.py    (GitAdapter)                             *)
(* Filenames, hook ids, patterns and the SKIP value are sequences of       *)
(* one-character strings, so that searching, splitting and stripping are   *)
(* computed and not assumed.                                               *)
(***************************************************************************)
EXTENDS Integers, Sequences, FiniteSets, TLC

\* ------------------------------------------------------------------ bounds
\* Hook exit codes are drawn from 0..MaxExit.
MaxExit == 2
\* A configuration holds at most MaxHooks hooks.
MaxHooks == 2
\* set_diff_checkpoint is called directly at most MaxCheckpointCalls times.
MaxCheckpointCalls == 2

\* ------------------------------------------------------------- sample data
APy  == <<"a", ".", "p", "y">>
BTxt == <<"b", ".", "t", "x", "t">>
GPy  == <<"g", ".", "p", "y">>
Gone == <<"o", "l", "d", ".", "p", "y">>
Msg  == <<"M", "S", "G">>

\* Files of the working tree; the content "none" means "not on disk", and a
\* file of content "v2" is executable.
Files == {APy, BTxt, GPy, Gone, Msg}
\* Files under version control (the commit-message file is not).
Tracked == {APy, BTxt, GPy}
\* The working tree when run() starts.
InitTree ==
    (APy :> "v1") @@ (BTxt :> "v1") @@ (GPy :> "v2") @@ (Gone :> "none")
    @@ (Msg :> "v1")
\* Content of the tracked files in the index.
IndexContent == [f \in Tracked |-> InitTree[f]]

\* The metadata directory's file and the ignore-file of a root.
GitHead    == <<".", "g", "i", "t", "/", "H", "E", "A", "D">>
IgnoreFile == <<".", "g", "i", "t", "i", "g", "n", "o", "r", "e">>
\* A root's tree with a metadata directory and an ignore-file.
FsTree == InitTree @@ (GitHead :> "v1") @@ (IgnoreFile :> "v1")
\* All paths, in sorted order.
KeyOrder == <<GitHead, IgnoreFile, Msg, APy, BTxt, GPy, Gone>>

\* Regular expressions of the form [^]literal[$].
Re(bol, lit, eol) == [bol |-> bol, lit |-> lit, eol |-> eol]
ReAny     == Re(FALSE, <<>>, FALSE)                \* ''
ReNothing == Re(TRUE, <<>>, TRUE)                  \* '^$'
RePy      == Re(FALSE, <<".", "p", "y">>, TRUE)    \* '\.py$'
ReStartB  == Re(TRUE, <<"b">>, FALSE)              \* '^b'
ReG       == Re(FALSE, <<"g">>, FALSE)             \* 'g'

NoAlias == <<>>
Stages == {"commit", "commit-msg"}

HookA == [id |-> <<"a">>, alias |-> NoAlias, files |-> ReAny, exclude |-> ReNothing,
          types |-> {"file"}, exclude_types |-> {}, always_run |-> TRUE,
          pass_filenames |-> TRUE, stages |-> {"commit", "commit-msg"}]
HookB == [id |-> <<"b">>, alias |-> <<"x">>, files |-> RePy, exclude |-> ReNothing,
          types |-> {"file", "python"}, exclude_types |-> {"executable"},
          always_run |-> FALSE,
          pass_filenames |-> TRUE, stages |-> {"commit", "commit-msg"}]
HookC == [id |-> <<"c">>, alias |-> NoAlias, files |-> ReAny, exclude |-> ReG,
          types |-> {"text"}, exclude_types |-> {"python"},
          always_run |-> FALSE, pass_filenames |-> FALSE, stages |-> {"commit"}]
HookPool == {HookA, HookB, HookC}

\* Values of the SKIP environment variable: '', 'a', ' a , x,', 'a b'.
SkipValues == { <<>>,
                <<"a">>,
                <<" ", "a", " ", ",", " ", "x", ",">>,
                <<"a", " ", "b">> }

\* Results of the git backend's file queries and of the explicit arguments.
ChangedFiles    == <<APy, BTxt>>
ExplicitFiles   == <<BTxt, Gone, GPy, APy>>
AllFiles        == <<APy, BTxt, GPy>>
ConflictedFiles == <<BTxt>>
StagedFiles     == <<Gone, GPy, APy, BTxt>>

\* --------------------------------------------------------- pure functions
Range(s) == {s[i] : i \in 1..Len(s)}

\* re.compile(p).search(s) for the patterns above.
re_search(p, s) ==
    \E k \in 0..(Len(s) - Len(p.lit)) :
        /\ SubSeq(s, k + 1, k + Len(p.lit)) = p.lit
        /\ p.bol => k = 0
        /\ p.eol => k + Len(p.lit) = Len(s)

\* filter_by_include_exclude without the exclude pattern.
filter_by_include_only(names, include, exclude) ==
    SelectSeq(names, LAMBDA filename : re_search(include, filename))

\* filter_by_include_exclude: keeps, in order, the names the include pattern
\* finds and the exclude pattern does not.
filter_by_include_exclude(names, include, exclude) ==
    SelectSeq(names, LAMBDA filename :
        re_search(include, filename) /\ ~re_search(exclude, filename))

\* os.path.lexists on the working tree.
lexists(tree, f) == f \in DOMAIN tree /\ tree[f] # "none"

\* identify.tags_from_path: the classification oracle. The tags depend on
\* the name and on what is on disk; the oracle raises for a missing file.
tags_from_path(f, content) ==
    {"file"}
    \cup (IF re_search(RePy, f) THEN {"python", "text"} ELSE {"text"})
    \cup (IF content = "v2" THEN {"executable"} ELSE {"non-executable"})

\* Classifier.__init__
Classifier(filenames, tree) ==
    [filenames |-> SelectSeq(filenames, LAMBDA f : lexists(tree, f)),
     types_cache |-> <<>>]

\* _types_for_file without the lookup in the cache.
types_for_file_uncached(cache, filename, tree) ==
    IF ~lexists(tree, filename)
    THEN [cache |-> cache, tags |-> {}, ok |-> FALSE, asked |-> <<filename>>]
    ELSE LET ret == tags_from_path(filename, tree[filename])
         IN [cache |-> (filename :> ret) @@ cache, tags |-> ret, ok |-> TRUE,
             asked |-> <<filename>>]

\* Classifier._types_for_file: the cached tags, or the oracle's answer stored
\* in the cache. ok is FALSE when the oracle raises; asked lists the filename
\* when the oracle was called.
types_for_file(cache, filename, tree) ==
    IF filename \in DOMAIN cache
    THEN [cache |-> cache, tags |-> cache[filename], ok |-> TRUE, asked |-> <<>>]
    ELSE IF ~lexists(tree, filename)
         THEN [cache |-> cache, tags |-> {}, ok |-> FALSE, asked |-> <<filename>>]
         ELSE LET ret == tags_from_path(filename, tree[filename])
              IN [cache |-> (filename :> ret) @@ cache, tags |-> ret, ok |-> TRUE,
                  asked |-> <<filename>>]

\* The test of Classifier.by_types on one file's tags.
types_match(tags, types, exclude_types) ==
    types \subseteq tags /\ tags \cap exclude_types = {}

\* The loop of Classifier.by_types over names, from the cache and the
\* filenames found so far; asked lists the oracle's calls in order.
RECURSIVE by_types_from(_, _, _, _, _, _)
by_types_from(cache, names, types, exclude_types, tree, ret) ==
    IF names = <<>>
    THEN [cache |-> cache, ret |-> ret, ok |-> TRUE, asked |-> <<>>]
    ELSE LET t == types_for_file(cache, Head(names), tree)
         IN IF ~t.ok
            THEN [cache |-> t.cache, ret |-> ret, ok |-> FALSE, asked |-> t.asked]
            ELSE LET rest == by_types_from(t.cache, Tail(names), types,
                                 exclude_types, tree,
                                 IF types_match(t.tags, types, exclude_types)
                                 THEN Append(ret, Head(names)) ELSE ret)
                 IN [rest EXCEPT !.asked = t.asked \o @]

\* Classifier.by_types
by_types(cache, names, types, exclude_types, tree) ==
    by_types_from(cache, names, types, exclude_types, tree, <<>>)

\* Classifier.filenames_for_hook
filenames_for_hook(classifier, hook, tree) ==
    by_types(classifier.types_cache,
             filter_by_include_exclude(classifier.filenames, hook.files, hook.exclude),
             hook.types, hook.exclude_types, tree)

\* str.split(',')
RECURSIVE split_from(_, _, _)
split_from(s, sep, piece) ==
    IF s = <<>> THEN <<piece>>
    ELSE IF Head(s) = sep
         THEN <<piece>> \o split_from(Tail(s), sep, <<>>)
         ELSE split_from(Tail(s), sep, Append(piece, Head(s)))

split(s, sep) == split_from(s, sep, <<>>)

\* str.strip()
RECURSIVE lstrip(_)
lstrip(s) == IF s # <<>> /\ Head(s) = " " THEN lstrip(Tail(s)) ELSE s

RECURSIVE rstrip(_)
rstrip(s) ==
    IF s # <<>> /\ s[Len(s)] = " " THEN rstrip(SubSeq(s, 1, Len(s) - 1)) ELSE s

strip(s) == rstrip(lstrip(s))

\* _get_skips
get_skips(environ) ==
    LET skips == environ.SKIP
        pieces == split(skips, ",")
    IN {strip(pieces[i]) : i \in {j \in 1..Len(pieces) : strip(pieces[j]) # <<>>}}

\* is_skipped looking at the id alone.
is_skipped_by_id_only(hook, skips) == hook.id \in skips

\* The first test of _run_single_hook.
is_skipped(hook, skips) == hook.id \in skips \/ hook.alias \in skips

\* ------------------------------------------------------------- GitAdapter
Unsupported == "NotImplementedError"
Delegated   == "delegated to git"

\* GitAdapter.__init__
GitAdapter(without_git) == [without_git |-> without_git, diff_checkpoint |-> "unset"]

\* GitAdapter.get_git_dir
get_git_dir(self) == IF self.without_git THEN Unsupported ELSE Delegated

\* GitAdapter.get_remote_url
get_remote_url(self) == IF self.without_git THEN Unsupported ELSE Delegated

\* GitAdapter.intent_to_add_files
intent_to_add_files(self) == IF self.without_git THEN Unsupported ELSE Delegated

\* GitAdapter.head_rev
head_rev(self) == IF ~self.without_git THEN Unsupported ELSE Delegated

\* GitAdapter.commit
commit(self) == IF self.without_git THEN Unsupported ELSE Delegated

\* GitAdapter.git_path
git_path(self) == IF self.without_git THEN Unsupported ELSE Delegated

VcsOnlyOps ==
    {"commit", "get_git_dir", "git_path", "get_remote_url", "intent_to_add_files",
     "head_rev"}

\* The outcome of calling one of the operations above on an adapter.
adapter_call(self, op) ==
    CASE op = "commit" -> commit(self)
      [] op = "get_git_dir" -> get_git_dir(self)
      [] op = "git_path" -> git_path(self)
      [] op = "get_remote_url" -> get_remote_url(self)
      [] op = "intent_to_add_files" -> intent_to_add_files(self)
      [] op = "head_rev" -> head_rev(self)

\* GitAdapter.has_unmerged_paths
has_unmerged_paths(self, repo) == IF self.without_git THEN FALSE ELSE repo.unmerged

\* GitAdapter.has_unstaged_config
has_unstaged_config(self, repo) ==
    IF self.without_git THEN FALSE ELSE repo.unstaged_config

\* GitAdapter.is_in_merge_conflict
is_in_merge_conflict(self, repo) ==
    IF self.without_git THEN FALSE ELSE repo.in_merge_conflict

\* GitAdapter.get_conflicted_files
get_conflicted_files(self) == IF self.without_git THEN <<>> ELSE ConflictedFiles

\* GitAdapter.get_staged_files
get_staged_files(self) == IF self.without_git THEN <<>> ELSE StagedFiles

\* GitAdapter.get_changed_files
get_changed_files(self) == IF self.without_git THEN <<>> ELSE ChangedFiles

\* A call that raised, and a call that returned val.
Raise(err) == [ok |-> FALSE, err |-> err]
Return(val) == [ok |-> TRUE, val |-> val]

\* GitAdapter.get_all_files: the filesystem branch passes the keyword
\* ignoredirs, which _list_filesystem_tree does not take.
get_all_files(self) ==
    IF self.without_git THEN Raise("TypeError") ELSE Return(AllFiles)

\* git.get_diff: the text of the differences between working tree and index.
git_get_diff(tree) ==
    {<<f, tree[f]>> : f \in {g \in Tracked : tree[g] # IndexContent[g]}}

\* hashlib.sha384(...).hexdigest(): equal digests for equal contents alone.
sha384(content) == <<"sha384", content>>

\* _hash_files
hash_files(filenames, tree) == [f \in Range(filenames) |-> sha384(tree[f])]

\* The keys of a dict in the order of iteration (the sorted order in which
\* _hash_files inserts them).
keys(dict) == SelectSeq(KeyOrder, LAMBDA key : key \in DOMAIN dict)

\* _diff_dicts without the comparison of the values.
diff_dicts_without_value_test(dict1, dict2) ==
    [added |-> SelectSeq(keys(dict2), LAMBDA key : key \notin DOMAIN dict1),
     removed |-> SelectSeq(keys(dict1), LAMBDA key : key \notin DOMAIN dict2),
     changed |-> SelectSeq(keys(dict1), LAMBDA key : key \in DOMAIN dict2)]

\* _diff_dicts
diff_dicts(dict1, dict2) ==
    [added |-> SelectSeq(keys(dict2), LAMBDA key : key \notin DOMAIN dict1),
     removed |-> SelectSeq(keys(dict1), LAMBDA key : key \notin DOMAIN dict2),
     changed |-> SelectSeq(keys(dict1), LAMBDA key :
                     key \in DOMAIN dict2 /\ dict1[key] # dict2[key])]

\* GitAdapter.get_diff
get_diff(self, tree) ==
    IF self.without_git
    THEN (IF get_all_files(self).ok
          THEN Return(hash_files(get_all_files(self).val, tree))
          ELSE get_all_files(self))
    ELSE Return(git_get_diff(tree))

\* GitAdapter.set_diff_checkpoint: the adapter afterwards, or the error.
set_diff_checkpoint(self, tree) ==
    IF self.without_git
    THEN (IF get_diff(self, tree).ok
          THEN Return([self EXCEPT !.diff_checkpoint = get_diff(self, tree).val])
          ELSE get_diff(self, tree))
    ELSE Return(self)

\* GitAdapter.get_checkpointed_diff: the attribute _diff_checkpoint is read
\* first and does not exist before set_diff_checkpoint has stored it.
get_checkpointed_diff(self, tree) ==
    IF self.without_git
    THEN (IF self.diff_checkpoint = "unset" THEN Raise("AttributeError")
          ELSE IF ~get_diff(self, tree).ok THEN get_diff(self, tree)
          ELSE Return(diff_dicts(self.diff_checkpoint, get_diff(self, tree).val)))
    ELSE Return("None")

\* git.has_diff(): whether the working tree differs from the index.
git_has_diff(tree) == git_get_diff(tree) # {}

\* GitAdapter.has_checkpointed_diff
has_checkpointed_diff(self, tree) ==
    IF self.without_git
    THEN (IF ~get_checkpointed_diff(self, tree).ok
          THEN get_checkpointed_diff(self, tree)
          ELSE LET diff_dict == get_checkpointed_diff(self, tree).val
               IN Return(\/ Len(diff_dict.added) > 0
                         \/ Len(diff_dict.removed) > 0
                         \/ Len(diff_dict.changed) > 0))
    ELSE Return(git_has_diff(tree))

\* ------------------------------------------------------------------ run.py
\* all_filenames with the explicit file list tested before the stage.
all_filenames_files_first(git_shim, a, repo) ==
    IF a.origin # "" /\ a.source # ""
    THEN [names |-> get_changed_files(git_shim), used |-> <<"get_changed_files">>]
    ELSE IF a.files # <<>>
    THEN [names |-> a.files, used |-> <<"files">>]
    ELSE IF a.hook_stage \in {"prepare-commit-msg", "commit-msg"}
    THEN [names |-> <<a.commit_msg_filename>>, used |-> <<"commit_msg_filename">>]
    ELSE IF a.all_files
    THEN [names |-> get_all_files(git_shim).val, used |-> <<"get_all_files">>]
    ELSE IF is_in_merge_conflict(git_shim, repo)
    THEN [names |-> get_conflicted_files(git_shim),
          used |-> <<"is_in_merge_conflict", "get_conflicted_files">>]
    ELSE [names |-> get_staged_files(git_shim),
          used |-> <<"is_in_merge_conflict", "get_staged_files">>]

\* _all_filenames: the candidate files, and the sources and adapter queries
\* used on the way, in order.
all_filenames(git_shim, a, repo) ==
    IF a.origin # "" /\ a.source # ""
    THEN [names |-> get_changed_files(git_shim), used |-> <<"get_changed_files">>]
    ELSE IF a.hook_stage \in {"prepare-commit-msg", "commit-msg"}
    THEN [names |-> <<a.commit_msg_filename>>, used |-> <<"commit_msg_filename">>]
    ELSE IF a.files # <<>>
    THEN [names |-> a.files, used |-> <<"files">>]
    ELSE IF a.all_files
    THEN [names |-> get_all_files(git_shim).val, used |-> <<"get_all_files">>]
    ELSE IF is_in_merge_conflict(git_shim, repo)
    THEN [names |-> get_conflicted_files(git_shim),
          used |-> <<"is_in_merge_conflict", "get_conflicted_files">>]
    ELSE [names |-> get_staged_files(git_shim),
          used |-> <<"is_in_merge_conflict", "get_staged_files">>]

\* no_stash without the test of the explicit file list.
no_stash_all_files_only(a) == a.all_files

\* run: no_stash
no_stash(a) == a.all_files \/ a.files # <<>>

\* preflight without the test of origin and source.
preflight_without_both_or_neither(git_shim, a, repo) ==
    IF has_unmerged_paths(git_shim, repo) THEN "Unmerged files"
    ELSE IF has_unstaged_config(git_shim, repo) /\ ~no_stash(a) THEN "Config unstaged"
    ELSE ""

\* run: the three preflight tests, in order; "" when the run goes on.
preflight(git_shim, a, repo) ==
    IF has_unmerged_paths(git_shim, repo) THEN "Unmerged files"
    ELSE IF (a.source # "") # (a.origin # "") THEN "Specify both"
    ELSE IF has_unstaged_config(git_shim, repo) /\ ~no_stash(a) THEN "Config unstaged"
    ELSE ""

\* select_hooks with the selection in reverse order.
select_hooks_reversed(all_hooks, a) ==
    LET sel == SelectSeq(all_hooks, LAMBDA hook :
                   /\ (a.hook = <<>> \/ hook.id = a.hook \/ hook.alias = a.hook)
                   /\ a.hook_stage \in hook.stages)
    IN [i \in 1..Len(sel) |-> sel[Len(sel) + 1 - i]]

\* run: the hooks of the configuration selected by --hook and the stage.
select_hooks(all_hooks, a) ==
    SelectSeq(all_hooks, LAMBDA hook :
        /\ (a.hook = <<>> \/ hook.id = a.hook \/ hook.alias = a.hook)
        /\ a.hook_stage \in hook.stages)

\* hook_branch without the test of always_run.
hook_branch_without_always_run(hook, filenames, skips) ==
    IF is_skipped(hook, skips) THEN "skipped"
    ELSE IF filenames = <<>> THEN "no_files"
    ELSE "invoke"

\* _run_single_hook: which of its three branches a hook takes.
hook_branch(hook, filenames, skips) ==
    IF is_skipped(hook, skips) THEN "skipped"
    ELSE IF filenames = <<>> /\ ~hook.always_run THEN "no_files"
    ELSE "invoke"

\* _run_single_hook: the arguments handed to hook.run.
run_arguments(hook, filenames) == IF hook.pass_filenames THEN filenames ELSE <<>>

\* hook_result without the test of the snapshots.
hook_result_ignoring_snapshots(retcode, diff_before, diff_after) ==
    IF retcode # 0 THEN 1 ELSE 0

\* _run_single_hook: the result from the hook's exit code and the snapshots.
hook_result(retcode, diff_before, diff_after) ==
    LET file_modifications == diff_before # diff_after
        rc == IF file_modifications THEN 1 ELSE retcode
    IN IF rc # 0 THEN 1 ELSE 0

\* accumulate keeping the last result alone.
accumulate_last_only(retval, result) == IF result # 0 THEN 1 ELSE 0

\* _run_hooks: retval |= result
accumulate(retval, result) == IF retval # 0 \/ result # 0 THEN 1 ELSE 0

\* loop_breaks without the test of fail_fast's accumulated result.
loop_never_breaks(retval, cfg) == FALSE

\* _run_hooks: the loop's exit test after a hook.
loop_breaks(retval, cfg) == retval # 0 /\ cfg.fail_fast

\* ------------------------------------------------------------------- state
VARIABLES
    shim,        \* the GitAdapter in use
    last_call,   \* the last direct call of a version-control-only operation
    pc,          \* where run() stands
    args,        \* the arguments of run()
    environ,     \* the environment mapping given to run()
    repo,        \* what the git backend would answer about the repository
    tree,        \* the working tree: file -> content
    scope,       \* staged_files_only: "none", "held" or "released"
    config,      \* the loaded configuration
    hooks,       \* the hooks selected for the run
    classifier,  \* the run's Classifier
    skips,       \* the run's skip set
    idx,         \* the loop's position in hooks
    retval,      \* the loop's accumulated result
    cur,         \* the hook being processed
    hist,        \* what the run has done so far: whether load_config returned,
                 \* the number of scope acquisitions and of calls of
                 \* set_diff_checkpoint, the candidate files and the sources
                 \* they came from, the hooks handed to hook.run (positions in
                 \* hooks, in order), the result of each hook processed, the
                 \* environment run() was given, the filenames the oracle
                 \* was asked about, the events of _run_hooks in order, and
                 \* the hooks whose two snapshots differed
    ret,         \* <<code>> once run() has returned, else <<>>
    error        \* the error run() reported or the exception it propagated

vars == <<shim, last_call, pc, args, environ, repo, tree, scope, config, hooks,
          classifier, skips, idx, retval, cur, hist, ret, error>>

\* The configurations list each hook of the pool at most once.
IsInjective(s) == \A i, j \in 1..Len(s) : s[i] = s[j] => i = j

HookLists ==
    UNION {{s \in [1..n -> HookPool] : IsInjective(s)} : n \in 0..MaxHooks}

Configs == [exclude : {ReNothing, ReStartB}, fail_fast : BOOLEAN, hooks : HookLists]

ArgsSet ==
    [without_git : BOOLEAN, origin : {"", "o"}, source : {"", "s"},
     hook_stage : Stages, commit_msg_filename : {Msg},
     files : {<<>>, ExplicitFiles}, all_files : BOOLEAN,
     hook : {<<>>, <<"x">>}, show_diff_on_failure : {FALSE}]

Repos == [unmerged : BOOLEAN, unstaged_config : BOOLEAN, in_merge_conflict : BOOLEAN]

NoVar == "<unset>"
Environs == [SKIP : SkipValues, PRE_COMMIT_ORIGIN : {NoVar}, PRE_COMMIT_SOURCE : {NoVar}]

\* Runs with and without --show-diff-on-failure, in environments that hold
\* the two variables already or do not.
ReportArgs ==
    [without_git : BOOLEAN, origin : {"", "o"}, source : {"", "s"},
     hook_stage : {"commit"}, commit_msg_filename : {Msg},
     files : {<<>>}, all_files : BOOLEAN,
     hook : {<<>>}, show_diff_on_failure : BOOLEAN]

ReportEnvirons ==
    [SKIP : {<<>>, <<"a">>}, PRE_COMMIT_ORIGIN : {NoVar, "stale"},
     PRE_COMMIT_SOURCE : {NoVar, "stale"}]

ExitCodes == 0..MaxExit
Effects == {"none", "rewrite", "delete"}

\* What a hook may do to the working tree while it runs.
hook_effect(t, e) ==
    CASE e = "none" -> t
      [] e = "rewrite" -> [t EXCEPT ![APy] = IF @ = "v1" THEN "v2" ELSE "v1"]
      [] e = "delete" -> [t EXCEPT ![BTxt] = "none"]

NoArgs == [without_git |-> FALSE, origin |-> "", source |-> "", hook_stage |-> "commit",
           commit_msg_filename |-> Msg, files |-> <<>>, all_files |-> FALSE,
           hook |-> <<>>, show_diff_on_failure |-> FALSE]
NoRepo == [unmerged |-> FALSE, unstaged_config |-> FALSE, in_merge_conflict |-> FALSE]
NoEnviron == [SKIP |-> <<>>, PRE_COMMIT_ORIGIN |-> NoVar, PRE_COMMIT_SOURCE |-> NoVar]
NoConfig == [exclude |-> ReNothing, fail_fast |-> FALSE, hooks |-> <<>>]
NoClassifier == [filenames |-> <<>>, types_cache |-> <<>>]
NoCur == [at |-> "none", hook |-> 0, branch |-> "", filenames |-> <<>>, handed |-> <<>>,
          diff_before |-> {}, diff_after |-> {}, retcode |-> 0, result |-> 0]
NoHist == [config_loaded |-> FALSE, acquired |-> 0, checkpoints |-> 0,
           candidates |-> <<>>, used |-> <<>>, invoked |-> <<>>, results |-> <<>>,
           start_environ |-> NoEnviron, asked |-> <<>>, events |-> <<>>,
           modified |-> <<>>]

Init ==
    /\ shim \in {GitAdapter(w) : w \in BOOLEAN}
    /\ last_call = <<>>
    /\ pc = "idle"
    /\ args = NoArgs
    /\ environ = NoEnviron
    /\ repo = NoRepo
    /\ tree = InitTree
    /\ scope = "none"
    /\ config = NoConfig
    /\ hooks = <<>>
    /\ classifier = NoClassifier
    /\ skips = {}
    /\ idx = 0
    /\ retval = 0
    /\ cur = NoCur
    /\ hist = NoHist
    /\ ret = <<>>
    /\ error = ""

\* ----------------------------------------------------------------- actions
\* A caller invokes one of the version-control-only operations of an adapter.
AdapterCall ==
    /\ pc = "idle"
    /\ \E op \in VcsOnlyOps : last_call' = <<op, adapter_call(shim, op)>>
    /\ UNCHANGED <<shim, pc, args, environ, repo, tree, scope, config, hooks,
                   classifier, skips, idx, retval, cur, hist, ret, error>>

\* run(), lines 229-257: the adapter, the preflight tests, the environment
\* variables and the entry of the with statement.
RunStartFrom(arguments, environs, repos) ==
    /\ pc = "idle"
    /\ \E a \in arguments, e \in environs, r \in repos :
        LET git_shim == GitAdapter(a.without_git)
            rejected == preflight(git_shim, a, r)
        IN /\ args' = a
           /\ repo' = r
           /\ shim' = git_shim
           /\ last_call' = <<>>
           /\ IF rejected # ""
              THEN /\ pc' = "returned"
                   /\ ret' = <<1>>
                   /\ error' = rejected
                   /\ environ' = e
                   /\ hist' = [hist EXCEPT !.start_environ = e]
                   /\ UNCHANGED scope
              ELSE /\ pc' = "in_ctx"
                   /\ environ' = IF a.origin # "" /\ a.source # ""
                                 THEN [e EXCEPT !.PRE_COMMIT_ORIGIN = a.origin,
                                                !.PRE_COMMIT_SOURCE = a.source]
                                 ELSE e
                   /\ scope' = IF no_stash(a) THEN "none" ELSE "held"
                   /\ hist' = [hist EXCEPT !.acquired = IF no_stash(a) THEN @ ELSE @ + 1,
                                           !.start_environ = e]
                   /\ UNCHANGED <<ret, error>>
    /\ UNCHANGED <<tree, config, hooks, classifier, skips, idx, retval, cur>>

RunStart == RunStartFrom(ArgsSet, Environs, Repos)

\* Leaving the with statement of run(): the scope, if held, is released.
ctx_exit(s) == IF s = "held" THEN "released" ELSE s

\* Propagate with the scope left as it is.
Propagate_keeping_scope(err) ==
    /\ pc' = "raised"
    /\ error' = err
    /\ UNCHANGED <<scope, ret>>

\* run() propagates an exception out of the with statement.
Propagate(err) ==
    /\ pc' = "raised"
    /\ error' = err
    /\ scope' = ctx_exit(scope)
    /\ UNCHANGED ret

\* run() returns code out of the with statement, having written msg.
ReturnFromCtx(code, msg) ==
    /\ pc' = "returned"
    /\ ret' = <<code>>
    /\ scope' = ctx_exit(scope)
    /\ error' = msg

\* run(), lines 258-268: load_config, the selection of the hooks and the
\* early return when --hook names no hook.
LoadConfig ==
    /\ pc = "in_ctx"
    /\ \/ /\ Propagate("load_config")
          /\ UNCHANGED <<config, hooks, hist>>
       \/ \E cfg \in Configs :
            /\ config' = cfg
            /\ hooks' = select_hooks(cfg.hooks, args)
            /\ hist' = [hist EXCEPT !.config_loaded = TRUE]
            /\ IF args.hook # <<>> /\ hooks' = <<>>
               THEN ReturnFromCtx(1, "No hook with id")
               ELSE /\ pc' = "install"
                    /\ UNCHANGED <<scope, ret, error>>
    /\ UNCHANGED <<shim, last_call, args, environ, repo, tree, classifier, skips,
                   idx, retval, cur>>

\* run(), line 270: install_hook_envs
InstallHookEnvs ==
    /\ pc = "install"
    /\ \/ Propagate("install_hook_envs")
       \/ /\ pc' = "run_hooks"
          /\ UNCHANGED <<scope, ret, error>>
    /\ UNCHANGED <<shim, last_call, args, environ, repo, tree, config, hooks,
                   classifier, skips, idx, retval, cur, hist>>

\* _run_hooks, lines 202-208: the checkpoint, the skip set, the candidate
\* files and the Classifier.
RunHooksBegin ==
    /\ pc = "run_hooks"
    /\ LET cp == set_diff_checkpoint(shim, tree)
           found == all_filenames(shim, args, repo)
           filenames == filter_by_include_exclude(found.names, ReAny, config.exclude)
       IN IF ~cp.ok
          THEN /\ Propagate(cp.err)
               /\ hist' = [hist EXCEPT !.checkpoints = @ + 1]
               /\ UNCHANGED <<shim, skips, classifier, retval, idx>>
          ELSE /\ shim' = cp.val
               /\ skips' = get_skips(environ)
               /\ classifier' = Classifier(filenames, tree)
               /\ retval' = 0
               /\ idx' = 1
               /\ hist' = [hist EXCEPT !.checkpoints = @ + 1,
                                       !.candidates = found.names,
                                       !.used = found.used,
                                       !.events = Append(@, <<"checkpoint", 0>>)]
               /\ pc' = IF hooks = <<>> THEN "end_loop" ELSE "loop"
               /\ UNCHANGED <<scope, ret, error>>
    /\ UNCHANGED <<last_call, args, environ, repo, tree, config, hooks, cur>>

\* _run_hooks, lines 210-212: the result of hook idx is accumulated and the
\* loop breaks or goes on; h is the history up to the hook's return.
LoopStep(result, h) ==
    /\ retval' = accumulate(retval, result)
    /\ hist' = [h EXCEPT !.results = Append(@, result),
                         !.events = Append(@, <<"loop_test", idx>>)]
    /\ idx' = idx + 1
    /\ pc' = IF loop_breaks(retval', config) \/ idx + 1 > Len(hooks)
             THEN "end_loop" ELSE "loop"

\* _run_single_hook, lines 76-119: the hook's filenames, the two ways of
\* skipping it, and the snapshot taken before it runs.
HookConsider ==
    /\ pc = "loop"
    /\ LET hook == hooks[idx]
           found == filenames_for_hook(classifier, hook, tree)
           branch == hook_branch(hook, found.ret, skips)
           seen == [NoCur EXCEPT !.at = "considered", !.hook = idx,
                                 !.branch = branch, !.filenames = found.ret]
           asked == [hist EXCEPT !.asked = @ \o found.asked]
       IN /\ classifier' = [classifier EXCEPT !.types_cache = found.cache]
          /\ IF ~found.ok
             THEN /\ Propagate("ValueError")
                  /\ cur' = [NoCur EXCEPT !.at = "classifying", !.hook = idx]
                  /\ hist' = asked
                  /\ UNCHANGED <<retval, idx>>
             ELSE IF branch # "invoke"
             THEN /\ cur' = seen
                  /\ LoopStep(0, [asked EXCEPT !.events = Append(@, <<branch, idx>>)])
                  /\ UNCHANGED <<scope, ret, error>>
             ELSE /\ cur' = [seen EXCEPT !.at = "before",
                                         !.diff_before = get_diff(shim, tree).val]
                  /\ pc' = "invoke"
                  /\ hist' = [asked EXCEPT !.events = Append(@, <<"before", idx>>)]
                  /\ UNCHANGED <<retval, idx, scope, ret, error>>
    /\ UNCHANGED <<shim, last_call, args, environ, repo, tree, config, hooks, skips>>

\* _run_single_hook, lines 120-122: hook.run
HookInvoke ==
    /\ pc = "invoke"
    /\ LET hook == hooks[idx]
           handed == run_arguments(hook, cur.filenames)
       IN \E e \in Effects :
            /\ tree' = hook_effect(tree, e)
            /\ hist' = [hist EXCEPT !.invoked = Append(@, idx),
                                    !.events = Append(@, <<"invoke", idx>>)]
            /\ \/ /\ Propagate("hook.run")
                  /\ cur' = [cur EXCEPT !.at = "raised", !.handed = handed]
               \/ \E rc \in ExitCodes :
                    /\ cur' = [cur EXCEPT !.at = "ran", !.handed = handed,
                                          !.retcode = rc]
                    /\ pc' = "after"
                    /\ UNCHANGED <<scope, ret, error>>
    /\ UNCHANGED <<shim, last_call, args, environ, repo, config, hooks, classifier,
                   skips, idx, retval>>

\* _run_single_hook, lines 123-163, and the loop's step after it.
HookFinish ==
    /\ pc = "after"
    /\ LET diff_after == get_diff(shim, tree).val
           result == hook_result(cur.retcode, cur.diff_before, diff_after)
       IN /\ cur' = [cur EXCEPT !.at = "done", !.diff_after = diff_after,
                                !.result = result]
          /\ LoopStep(result, [hist EXCEPT !.events = Append(@, <<"after", idx>>),
                                           !.modified = IF cur.diff_before # diff_after
                                                        THEN Append(@, idx) ELSE @])
    /\ UNCHANGED <<shim, last_call, args, environ, repo, tree, scope, config, hooks,
                   classifier, skips, ret, error>>

\* report_due without the test of --show-diff-on-failure.
report_due_ignoring_flag(result, a, diff) == result # 0 /\ diff

\* _run_hooks, line 213: whether the cumulative diff is printed.
report_due(result, a, diff) == result # 0 /\ a.show_diff_on_failure /\ diff

\* _run_hooks, lines 213-226: the report of the cumulative diff, and run()
\* returning the loop's result through the with statement.
RunHooksEnd ==
    /\ pc = "end_loop"
    /\ LET asks == retval # 0 /\ args.show_diff_on_failure
           diff == has_checkpointed_diff(shim, tree)
       IN IF asks /\ ~diff.ok
          THEN /\ Propagate(diff.err)
               /\ UNCHANGED hist
          ELSE /\ hist' = [hist EXCEPT !.events =
                              IF report_due(retval, args, diff.ok /\ diff.val)
                              THEN Append(@, <<"report", 0>>) ELSE @]
               /\ ReturnFromCtx(retval, "")
    /\ UNCHANGED <<shim, last_call, args, environ, repo, tree, config, hooks,
                   classifier, skips, idx, retval, cur>>

Next ==
    \/ AdapterCall
    \/ RunStart
    \/ LoadConfig
    \/ InstallHookEnvs
    \/ RunHooksBegin
    \/ HookConsider
    \/ HookInvoke
    \/ HookFinish
    \/ RunHooksEnd

Spec == Init /\ [][Next]_vars

\* ------------------------------------- runs that may report, in any environment
RunStartReport == RunStartFrom(ReportArgs, ReportEnvirons, Repos)

NextReport ==
    \/ RunStartReport
    \/ LoadConfig
    \/ InstallHookEnvs
    \/ RunHooksBegin
    \/ HookConsider
    \/ HookInvoke
    \/ HookFinish
    \/ RunHooksEnd

SpecReport == Init /\ [][NextReport]_vars

\* ------------------------------------------- the adapter's snapshot operations
\* The files a snapshot may hold, and the snapshots: filename -> digest.
SnapshotNames == {Msg, APy, BTxt, GPy}
Snapshots ==
    UNION {[names -> {sha384("v1"), sha384("v2")}] : names \in SUBSET SnapshotNames}

\* What may happen to the files of the root between two calls.
TreeContents == {"v1", "v2", "none"}

InitAdapter ==
    /\ shim \in {GitAdapter(w) : w \in BOOLEAN}
    /\ last_call = <<>>
    /\ pc = "idle"
    /\ args = NoArgs
    /\ environ = NoEnviron
    /\ repo = NoRepo
    /\ tree = FsTree
    /\ scope = "none"
    /\ config = NoConfig
    /\ hooks = <<>>
    /\ classifier = NoClassifier
    /\ skips = {}
    /\ idx = 0
    /\ retval = 0
    /\ cur = NoCur
    /\ hist = NoHist
    /\ ret = <<>>
    /\ error = ""

\* A file of the root is written or removed.
TreeChange ==
    /\ \E f \in {APy, IgnoreFile}, c \in TreeContents : tree' = [tree EXCEPT ![f] = c]
    /\ UNCHANGED <<shim, last_call, pc, args, environ, repo, scope, config, hooks,
                   classifier, skips, idx, retval, cur, hist, ret, error>>

\* A caller invokes set_diff_checkpoint().
CallSetDiffCheckpoint ==
    /\ hist.checkpoints < MaxCheckpointCalls
    /\ LET r == set_diff_checkpoint(shim, tree)
       IN /\ shim' = IF r.ok THEN r.val ELSE shim
          /\ last_call' = <<"set_diff_checkpoint", IF r.ok THEN Return("None") ELSE r>>
    /\ hist' = [hist EXCEPT !.checkpoints = @ + 1]
    /\ UNCHANGED <<pc, args, environ, repo, tree, scope, config, hooks,
                   classifier, skips, idx, retval, cur, ret, error>>

\* A caller invokes has_checkpointed_diff(); the tree it ran on is recorded.
CallHasCheckpointedDiff ==
    /\ last_call' = <<"has_checkpointed_diff", has_checkpointed_diff(shim, tree), tree>>
    /\ UNCHANGED <<shim, pc, args, environ, repo, tree, scope, config, hooks,
                   classifier, skips, idx, retval, cur, hist, ret, error>>

\* A caller invokes get_all_files(); the tree it ran on is recorded.
CallGetAllFiles ==
    /\ last_call' = <<"get_all_files", get_all_files(shim), tree>>
    /\ UNCHANGED <<shim, pc, args, environ, repo, tree, scope, config, hooks,
                   classifier, skips, idx, retval, cur, hist, ret, error>>

NextAdapter ==
    \/ TreeChange
    \/ CallSetDiffCheckpoint
    \/ CallHasCheckpointedDiff
    \/ CallGetAllFiles

SpecAdapter == InitAdapter /\ [][NextAdapter]_vars

\* ------------------------------------------------ the comparison of snapshots
\* Two snapshots are at hand.
InitDiff ==
    /\ shim \in {GitAdapter(TRUE)}
    /\ last_call \in {<<"snapshots", dict1, dict2>> : dict1, dict2 \in Snapshots}
    /\ pc = "idle"
    /\ args = NoArgs
    /\ environ = NoEnviron
    /\ repo = NoRepo
    /\ tree = FsTree
    /\ scope = "none"
    /\ config = NoConfig
    /\ hooks = <<>>
    /\ classifier = NoClassifier
    /\ skips = {}
    /\ idx = 0
    /\ retval = 0
    /\ cur = NoCur
    /\ hist = NoHist
    /\ ret = <<>>
    /\ error = ""

\* _diff_dicts is applied to the two snapshots.
CallDiffDicts ==
    /\ last_call[1] = "snapshots"
    /\ last_call' = <<"_diff_dicts", diff_dicts(last_call[2], last_call[3]),
                      last_call[2], last_call[3]>>
    /\ UNCHANGED <<shim, pc, args, environ, repo, tree, scope, config, hooks,
                   classifier, skips, idx, retval, cur, hist, ret, error>>

NextDiff == CallDiffDicts

SpecDiff == InitDiff /\ [][NextDiff]_vars

\* ------------------------------------------------------------------ claims
Count(s, x) == Cardinality({i \in 1..Len(s) : s[i] = x})

\* The hook in cur has been through hook.run and both snapshots.
HookDone == cur.at = "done"

\* The members of the skip set of the run's environment.
InSkipSet(hook) ==
    hook.id \in get_skips(environ) \/ hook.alias \in get_skips(environ)

\* C1: for every invoked hook, differing snapshots before and after hook.run
\* make its reported result 1 whatever its exit code, and equal snapshots
\* make the result 0 exactly when the exit code is 0.
C1_ModificationForcesFailure ==
    HookDone =>
        /\ hist.results[cur.hook] = cur.result
        /\ cur.diff_before # cur.diff_after => cur.result = 1
        /\ cur.diff_before = cur.diff_after => (cur.result = 0 <=> cur.retcode = 0)

C1_Witness ==
    /\ HookDone
    /\ cur.retcode = 0
    /\ cur.diff_before # cur.diff_after
    /\ cur.result = 1

\* C2: a hook whose id or alias is in the skip set parsed from SKIP is never
\* invoked, has no snapshot taken for it and contributes 0, whatever its
\* always_run flag and its filenames.
C2_SkippedNeverInvoked ==
    \A i \in 1..Len(hooks) :
        InSkipSet(hooks[i]) =>
            /\ Count(hist.invoked, i) = 0
            /\ i <= Len(hist.results) => hist.results[i] = 0
            /\ cur.hook = i =>
                /\ cur.at \in {"considered", "classifying"}
                /\ cur.diff_before = {}
                /\ cur.diff_after = {}

C2_Witness ==
    /\ cur.at = "considered"
    /\ hooks[cur.hook].always_run
    /\ hooks[cur.hook].id \in get_skips(environ)
    /\ cur.filenames # <<>>
    /\ hist.results[cur.hook] = 0
    /\ \E i \in 1..Len(hooks) :
        /\ i < cur.hook
        /\ hooks[i].alias \in get_skips(environ)
        /\ hooks[i].id \notin get_skips(environ)
        /\ hist.results[i] = 0
    /\ hist.invoked = <<>>

\* C3: a hook with always_run false and no filenames is never invoked and
\* contributes 0; a hook outside the skip set that has always_run or some
\* filename is invoked exactly once when the loop reaches it.
C3_NoFilesSkipAndInvokeOnce ==
    /\ \A i \in 1..Len(hooks) : Count(hist.invoked, i) <= 1
    /\ cur.at \in {"considered", "before", "ran", "raised", "done"} =>
        LET hook == hooks[cur.hook] IN
        /\ (~hook.always_run /\ cur.filenames = <<>>) =>
            /\ cur.at = "considered"
            /\ Count(hist.invoked, cur.hook) = 0
            /\ hist.results[cur.hook] = 0
        /\ (~InSkipSet(hook) /\ (hook.always_run \/ cur.filenames # <<>>)) =>
            /\ cur.at # "considered"
            /\ Count(hist.invoked, cur.hook) = (IF cur.at = "before" THEN 0 ELSE 1)

C3_Witness ==
    /\ HookDone
    /\ hooks[cur.hook].always_run
    /\ cur.filenames = <<>>
    /\ hist.invoked = <<cur.hook>>
    /\ cur.hook = 2
    /\ ~InSkipSet(hooks[1])
    /\ hist.results[1] = 0

\* C4: with fail_fast, no hook after one that reported failure is considered
\* or invoked; without it, the loop considers every hook of the list.
C4_FailFastStops ==
    /\ config.fail_fast =>
        \A i \in 1..Len(hist.results) :
            hist.results[i] = 1 =>
                /\ Len(hist.results) = i
                /\ \A j \in 1..Len(hist.invoked) : hist.invoked[j] <= i
                /\ cur.hook <= i
    /\ (~config.fail_fast /\ pc \in {"end_loop", "returned"} /\ idx > 0) =>
        Len(hist.results) = Len(hooks)

C4_Witness ==
    /\ config.fail_fast
    /\ pc = "returned"
    /\ Len(hooks) = 2
    /\ hist.results = <<1>>
    /\ hist.invoked = <<1>>

\* C5: when the adapter reports unmerged paths, or exactly one of origin and
\* source is given, or the adapter reports an unstaged configuration and
\* neither all-files nor files is given, run() returns 1 and has invoked no
\* hook, loaded no configuration, acquired no scope and taken no checkpoint.
Rejecting ==
    \/ ~args.without_git /\ repo.unmerged
    \/ (args.origin # "") # (args.source # "")
    \/ /\ ~args.without_git /\ repo.unstaged_config
       /\ ~args.all_files /\ args.files = <<>>

C5_PreflightRejects ==
    (pc # "idle" /\ Rejecting) =>
        /\ pc = "returned"
        /\ ret = <<1>>
        /\ hist.invoked = <<>>
        /\ ~hist.config_loaded
        /\ scope = "none"
        /\ hist.acquired = 0
        /\ hist.checkpoints = 0
        /\ cur = NoCur

C5_Witness ==
    /\ pc = "returned"
    /\ ret = <<1>>
    /\ ~repo.unmerged
    /\ args.origin # "" /\ args.source = ""
    /\ hist = [NoHist EXCEPT !.start_environ = environ]

\* The run went past the three preflight tests.
PassedPreflight == pc # "idle" /\ ~Rejecting

\* --hook was given and selects no hook of the configuration.
NoSuchHook == hist.config_loaded /\ args.hook # <<>> /\ hooks = <<>>

SomeHookFailed == \E i \in 1..Len(hist.results) : hist.results[i] = 1

\* C6 as claimed: every run that passes preflight returns 0 or 1, and 1
\* exactly when some hook processed in the loop reported failure.
C6_ReturnIsOrOfResults_AsClaimed ==
    (pc = "returned" /\ PassedPreflight) =>
        /\ ret \in {<<0>>, <<1>>}
        /\ ret = <<1>> <=> SomeHookFailed

\* C6: a run that passes preflight and returns from the hook loop returns 0
\* or 1, and 1 exactly when some hook processed in the loop reported failure
\* (0 when every hook is skipped); a run that passes preflight and whose
\* --hook selects no hook returns 1 without processing any hook.
C6_ReturnIsOrOfResults ==
    (pc = "returned" /\ PassedPreflight) =>
        IF NoSuchHook
        THEN ret = <<1>> /\ hist.results = <<>> /\ hist.invoked = <<>>
        ELSE /\ ret \in {<<0>>, <<1>>}
             /\ ret = <<1>> <=> SomeHookFailed
             /\ hist.invoked = <<>> => ret = <<0>>

C6_Witness ==
    /\ pc = "returned"
    /\ PassedPreflight
    /\ hist.results = <<1, 0>>
    /\ hist.invoked = <<1, 2>>
    /\ ret = <<1>>

\* The sources of candidate files in their order of priority, each with its
\* condition and with what it yields in a git repository.
CandidateSources ==
    << [source |-> "get_changed_files", names |-> ChangedFiles,
        cond |-> args.origin # "" /\ args.source # ""],
       [source |-> "commit_msg_filename", names |-> <<args.commit_msg_filename>>,
        cond |-> args.hook_stage \in {"prepare-commit-msg", "commit-msg"}],
       [source |-> "files", names |-> args.files,
        cond |-> args.files # <<>>],
       [source |-> "get_all_files", names |-> AllFiles,
        cond |-> args.all_files],
       [source |-> "get_conflicted_files", names |-> ConflictedFiles,
        cond |-> repo.in_merge_conflict],
       [source |-> "get_staged_files", names |-> StagedFiles,
        cond |-> TRUE] >>

\* C7: the candidate files come from the first source whose condition holds,
\* in the fixed order of priority; one source is used per run, and neither a
\* source of lower priority nor the merge-conflict query is consulted when a
\* condition of higher priority holds.
C7_CandidatePriority ==
    hist.used # <<>> =>
        \E k \in 1..Len(CandidateSources) :
            /\ CandidateSources[k].cond
            /\ \A j \in 1..(k - 1) : ~CandidateSources[j].cond
            /\ {CandidateSources[j].source : j \in 1..Len(CandidateSources)}
                   \cap Range(hist.used) = {CandidateSources[k].source}
            /\ hist.candidates = CandidateSources[k].names
            /\ "is_in_merge_conflict" \in Range(hist.used) <=> k >= 5
            /\ Count(hist.used, CandidateSources[k].source) = 1

C7_Witness ==
    /\ hist.used = <<"commit_msg_filename">>
    /\ args.files # <<>>
    /\ args.all_files
    /\ repo.in_merge_conflict
    /\ hist.candidates = <<Msg>>

\* The position of f in the sequence s (0 when it is not there).
IndexOf(s, f) == IF \E i \in 1..Len(s) : s[i] = f
                 THEN CHOOSE i \in 1..Len(s) : s[i] = f ELSE 0

\* The file f of the candidates is one the hook is to see.
Applies(hook, f) ==
    /\ lexists(InitTree, f)
    /\ ~re_search(config.exclude, f)
    /\ re_search(hook.files, f)
    /\ ~re_search(hook.exclude, f)
    /\ f \in DOMAIN classifier.types_cache
    /\ hook.types \subseteq classifier.types_cache[f]
    /\ classifier.types_cache[f] \cap hook.exclude_types = {}

\* C8: an invoked hook with pass_filenames is handed exactly the candidate
\* files that were on disk when the Classifier was built, pass the run's
\* exclude pattern and the hook's include and exclude patterns, and whose
\* tags contain the hook's types and none of its exclude_types, in the order
\* of the candidates; a hook without pass_filenames is handed nothing.
C8_HandedFilenames ==
    cur.at \in {"ran", "raised", "done"} =>
        LET hook == hooks[cur.hook]
            handed == cur.handed
        IN /\ ~hook.pass_filenames => handed = <<>>
           /\ hook.pass_filenames =>
                /\ Range(handed) = {f \in Range(hist.candidates) : Applies(hook, f)}
                /\ \A i, j \in 1..Len(handed) :
                     i < j => IndexOf(hist.candidates, handed[i])
                                  < IndexOf(hist.candidates, handed[j])
           /\ (hist.candidates = <<APy, BTxt>> /\ config.exclude = ReNothing) =>
                /\ hook = HookA => handed = <<APy, BTxt>>
                /\ hook = HookB => handed = <<APy>>

C8_Witness ==
    /\ HookDone
    /\ hooks = <<HookA, HookB>>
    /\ cur.hook = 2
    /\ hist.candidates = StagedFiles
    /\ config.exclude = ReStartB
    /\ cur.handed = <<APy>>

\* C9 as claimed: each version-control-only operation raises the unsupported
\* error in filesystem-only mode and delegates to git otherwise.
C9_VcsOnlyOperations_AsClaimed ==
    last_call # <<>> =>
        last_call[2] = (IF shim.without_git THEN Unsupported ELSE Delegated)

\* C10: no run ends, by returning or by propagating an exception, with the
\* staged-files-only scope held: a scope that was acquired is released.
C10_ScopeReleased ==
    /\ pc \in {"returned", "raised"} => scope # "held"
    /\ (pc \in {"returned", "raised"} /\ hist.acquired > 0) => scope = "released"
    /\ scope = "held" => hist.acquired = 1

C10_Witness ==
    /\ pc = "raised"
    /\ error = "hook.run"
    /\ hist.acquired = 1
    /\ scope = "released"
    /\ config.fail_fast

\* C11: the staged-files-only scope is acquired in a run exactly when the run
\* passes preflight and neither all-files nor a non-empty file list is given,
\* and at most once; with all-files or a file list the scope is never held.
C11_ScopeAcquiredIff ==
    /\ hist.acquired \in {0, 1}
    /\ pc = "idle" => (hist.acquired = 0 /\ scope = "none")
    /\ pc # "idle" =>
        /\ hist.acquired = 1 <=>
               (~Rejecting /\ ~args.all_files /\ args.files = <<>>)
        /\ (args.all_files \/ args.files # <<>>) => scope = "none"
        /\ scope # "none" => hist.acquired = 1

C11_Witness ==
    /\ pc = "returned"
    /\ args.files # <<>>
    /\ ~args.all_files
    /\ hist.invoked # <<>>
    /\ hist.acquired = 0
    /\ scope = "none"

\* The hook in cur has been handed to hook.run.
HookInvoked == cur.at \in {"ran", "raised", "done"}

\* C12 as claimed: whatever the environment run() starts in, at each hook
\* invocation PRE_COMMIT_ORIGIN and PRE_COMMIT_SOURCE hold the two refs when
\* both were given and are absent otherwise, and a run rejected in preflight
\* leaves the environment as it was.
C12_EnvironmentVariables_AsClaimed ==
    /\ HookInvoked =>
        IF args.origin # "" /\ args.source # ""
        THEN /\ environ.PRE_COMMIT_ORIGIN = args.origin
             /\ environ.PRE_COMMIT_SOURCE = args.source
        ELSE /\ environ.PRE_COMMIT_ORIGIN = NoVar
             /\ environ.PRE_COMMIT_SOURCE = NoVar
    /\ (pc # "idle" /\ Rejecting) => environ = hist.start_environ

\* The last direct call was of the operation op.
LastCallOf(op) == last_call # <<>> /\ last_call[1] = op

\* C13: for two snapshots S1 (earlier) and S2 (later), _diff_dicts lists a
\* filename as added exactly when it is in S2 alone, as removed exactly when
\* it is in S1 alone, as changed exactly when it is in both with different
\* digests, and in no list when it is in both with equal digests; the three
\* lists are pairwise disjoint and hold no filename twice.
C13_DiffClassification ==
    LastCallOf("_diff_dicts") =>
        LET d == last_call[2]
            S1 == last_call[3]
            S2 == last_call[4]
            added == Range(d.added)
            removed == Range(d.removed)
            changed == Range(d.changed)
        IN /\ \A f \in Range(KeyOrder) :
                /\ f \in added <=> (f \in DOMAIN S2 /\ f \notin DOMAIN S1)
                /\ f \in removed <=> (f \in DOMAIN S1 /\ f \notin DOMAIN S2)
                /\ f \in changed <=>
                       (f \in DOMAIN S1 /\ f \in DOMAIN S2 /\ S1[f] # S2[f])
                /\ (f \in DOMAIN S1 /\ f \in DOMAIN S2 /\ S1[f] = S2[f]) =>
                       f \notin added \cup removed \cup changed
           /\ added \cap removed = {}
           /\ added \cap changed = {}
           /\ removed \cap changed = {}
           /\ IsInjective(d.added \o d.removed \o d.changed)

C13_Witness ==
    /\ LastCallOf("_diff_dicts")
    /\ last_call[2] = [added |-> <<GPy>>, removed |-> <<Msg>>, changed |-> <<APy>>]
    /\ BTxt \in DOMAIN last_call[3]
    /\ BTxt \in DOMAIN last_call[4]

\* The snapshot of the files of the root t that get_diff() is to return in
\* filesystem-only mode.
IgnorePattern == Re(FALSE, <<".", "t", "x", "t">>, TRUE)    \* the line '*.txt'
UnderMetadataDir(f) == Len(f) >= 5 /\ SubSeq(f, 1, 5) = <<".", "g", "i", "t", "/">>
Ignored(t, f) == lexists(t, IgnoreFile) /\ re_search(IgnorePattern, f)
ExpectedAllFiles(t) ==
    SelectSeq(KeyOrder, LAMBDA f :
        lexists(t, f) /\ ~UnderMetadataDir(f) /\ ~Ignored(t, f))
ExpectedSnapshot(t) == hash_files(ExpectedAllFiles(t), t)

\* C14 as claimed: in filesystem-only mode, once set_diff_checkpoint() has
\* been called, has_checkpointed_diff() returns a truth value, and FALSE
\* exactly when the stored checkpoint equals the snapshot of the tree it is
\* called on.
C14_CheckpointedDiff_AsClaimed ==
    (LastCallOf("has_checkpointed_diff") /\ shim.without_git
         /\ hist.checkpoints > 0) =>
        /\ last_call[2].ok
        /\ last_call[2].val = (shim.diff_checkpoint # ExpectedSnapshot(last_call[3]))

\* C15 as claimed: in filesystem-only mode get_all_files() returns, whether
\* the ignore-file is there or not, the sorted list of the files on disk that
\* are not below the metadata directory and not matched by the ignore-file.
C15_GetAllFiles_AsClaimed ==
    (LastCallOf("get_all_files") /\ shim.without_git) =>
        last_call[2] = Return(ExpectedAllFiles(last_call[3]))

\* C16: within one run the oracle is asked at most once about a filename,
\* every cached filename was asked about, and an entry of the cache is never
\* changed or removed, so that a later query returns the tags of the first
\* one even when a hook has rewritten the file in between.
C16_TagLookupIdempotent ==
    /\ [](/\ IsInjective(hist.asked)
          /\ DOMAIN classifier.types_cache \subseteq Range(hist.asked))
    /\ [][\A f \in DOMAIN classifier.types_cache :
             /\ f \in DOMAIN classifier.types_cache'
             /\ classifier.types_cache'[f] = classifier.types_cache[f]]_vars

C16_Witness ==
    /\ cur.hook = 2
    /\ cur.at = "before"
    /\ APy \in Range(cur.filenames)
    /\ APy \in DOMAIN classifier.types_cache
    /\ classifier.types_cache[APy] # tags_from_path(APy, tree[APy])
    /\ Count(hist.asked, APy) = 1

\* C17 as claimed: a run that calls set_diff_checkpoint() calls it once and
\* has the checkpoint captured by it, before any hook is considered, in
\* filesystem-only mode as with git; the stored checkpoint is not written
\* again, and a hook's result comes from its own two snapshots alone.
C17_CheckpointOnce_AsClaimed ==
    hist.checkpoints > 0 =>
        /\ hist.checkpoints = 1
        /\ Count(hist.events, <<"checkpoint", 0>>) = 1
        /\ hist.events[1] = <<"checkpoint", 0>>
        /\ shim.without_git => shim.diff_checkpoint # "unset"
        /\ HookDone =>
              cur.result = hook_result(cur.retcode, cur.diff_before, cur.diff_after)

\* The positions in the configuration's list of the hooks selected, in order.
ConfiguredPositions == [i \in 1..Len(hooks) |-> IndexOf(config.hooks, hooks[i])]

StrictlyIncreasing(s) == \A i, j \in 1..Len(s) : i < j => s[i] < s[j]

\* C18: the hooks are processed one at a time in the configuration's order:
\* the hooks invoked are a subsequence of the configured list, none is
\* invoked twice, the events of an invoked hook are its snapshot before, its
\* invocation and its snapshot after, in that order and next to each other,
\* and the loop's test of fail_fast comes only after a hook's last event.
C18_OneHookAtATime ==
    LET ev == hist.events
        n == Len(ev)
    IN /\ StrictlyIncreasing(hist.invoked)
       /\ hist.invoked # <<>> =>
            /\ StrictlyIncreasing(ConfiguredPositions)
            /\ \A i \in 1..Len(hooks) : ConfiguredPositions[i] > 0
       /\ \A i \in 1..Len(hooks) : Count(ev, <<"invoke", i>>) <= 1
       /\ \A k \in 1..n :
            /\ ev[k][1] = "before" =>
                  (k < n => ev[k + 1] = <<"invoke", ev[k][2]>>)
            /\ ev[k][1] = "invoke" =>
                  /\ k > 1 /\ ev[k - 1] = <<"before", ev[k][2]>>
                  /\ k < n => ev[k + 1] = <<"after", ev[k][2]>>
            /\ ev[k][1] = "after" =>
                  /\ k > 1 /\ ev[k - 1] = <<"invoke", ev[k][2]>>
                  /\ k < n => ev[k + 1] = <<"loop_test", ev[k][2]>>
            /\ ev[k][1] = "loop_test" =>
                  /\ k > 1 /\ ev[k - 1][2] = ev[k][2]
                  /\ ev[k - 1][1] \in {"after", "skipped", "no_files"}
                  /\ k < n => /\ ev[k + 1][2] \in {0, ev[k][2] + 1}
                              /\ ev[k + 1][1] \in
                                     {"before", "skipped", "no_files", "report"}
       /\ pc \in {"invoke", "after"} => (n > 0 /\ ev[n][2] = idx)
       /\ (pc = "end_loop" /\ hooks # <<>>) => ev[n][1] = "loop_test"

C18_Witness ==
    /\ pc = "returned"
    /\ config.fail_fast
    /\ Len(hooks) = 2
    /\ hist.events = << <<"checkpoint", 0>>, <<"before", 1>>, <<"invoke", 1>>,
                        <<"after", 1>>, <<"loop_test", 1>> >>
    /\ hist.results = <<1>>

Reports == Count(hist.events, <<"report", 0>>)

\* C19: the cumulative diff is reported at most once, after the last event
\* of the loop, and a run that returns from the hook loop has reported it
\* exactly when its result is 1, --show-diff-on-failure was given and
\* has_checkpointed_diff() answers TRUE; no run returning 0 has reported it.
C19_ReportIff ==
    /\ Reports <= 1
    /\ pc \notin {"returned"} => Reports = 0
    /\ Reports = 1 =>
        /\ hist.events[Len(hist.events)] = <<"report", 0>>
        /\ ret = <<1>>
    /\ (pc = "returned" /\ idx > 0) =>
        (Reports = 1 <=>
            /\ ret = <<1>>
            /\ args.show_diff_on_failure
            /\ has_checkpointed_diff(shim, tree).ok
            /\ has_checkpointed_diff(shim, tree).val)

C19_Witness ==
    /\ pc = "returned"
    /\ Reports = 1
    /\ Len(hist.results) = 2
    /\ hist.modified = <<1>>
    /\ args.show_diff_on_failure

====
